---- MODULE Spec2Model ----
(***************************************************************************)
(* cstruct: a binary pack/unpack codec driven by a format string.          *)
(*                                                                         *)
(* The model follows src/src/cstruct/cstruct.c.  A call of cstruct_pack_v, *)
(* cstruct_unpack_v or cstruct_get_ptr is a small state machine: one step  *)
(* per iteration of its while loop over the format, i.e. one parse_token   *)
(* call, the bounds check and the dispatch on the token's type.            *)
(*                                                                         *)
(* Representation                                                          *)
(*   - a format string is a sequence of one-character strings; reading at  *)
(*     or past its end yields NUL, the terminating '\0';                   *)
(*   - a byte is a number in 0..255; the caller's buffer is a sequence of  *)
(*     BufSize bytes of which the call is told the first `len`;            *)
(*   - a value of a w-byte type is the sequence of its w bytes, least      *)
(*     significant first (byte i is (v >> 8*i) & 0xFF); the object that    *)
(*     holds it in host memory has these bytes in host order;              *)
(*   - size_t is SIZE_MAX-bounded: products are taken modulo SIZE_MAX + 1; *)
(*   - a call whose element loop runs past buf + len has left the defined  *)
(*     behaviour of C: the model records the extent of its accesses and    *)
(*     the bytes it stored in the memory it keeps, and gives the call the  *)
(*     status "undefined": no return value, no further step;               *)
(*   - a float argument is its binary32 pattern: the promotion to double   *)
(*     of the variadic call and the cast back to float are exact.          *)
(***************************************************************************)
EXTENDS Integers, Sequences, FiniteSets, TLC

VARIABLES
    bigEndianHost,   \* CSTRUCT_IS_BIG_ENDIAN of this build
    buf,             \* the caller's buffer (dst of pack, src of unpack/get_ptr)
    op,              \* the function being called: "pack", "unpack", "get_ptr"
    fmt,             \* its format string
    len,             \* dstlen / srclen
    args,            \* the variable argument list (one slot per token)
    index,           \* get_ptr's index
    next_fmt,        \* position of the parser cursor in fmt (1-based)
    current_endian,  \* the running endianness
    out,             \* the buffer cursor, as an offset from the start (out / in)
    argi,            \* number of va_arg slots consumed
    current_index,   \* get_ptr's field counter
    tok,             \* the token of the last parse_token call (NoTok: none)
    status,          \* "idle", "run", "ok" (non-NULL return), "null", "undefined"
    buf0,            \* the buffer as it was when the call started
    fields,          \* the tokens processed by this call, with their start offsets
    dests,           \* what unpack stored through each destination pointer
    hiAccess,        \* 1 + the highest buffer offset this call read or wrote
    lastEndian,      \* current_endian as the previous call left it
    calls,           \* calls made so far
    peer             \* the locals, buffer and destinations of a second call,
                     \* on another thread, while that thread is not running

vars == <<bigEndianHost, buf, op, fmt, len, args, index, next_fmt, current_endian,
          out, argi, current_index, tok, status, buf0, fields, dests, hiAccess,
          lastEndian, calls, peer>>

-----------------------------------------------------------------------------
(* Bounds of the model *)

\* context switches between the two threads that are followed
MaxSwitches == 4

\* bytes of the caller's memory the model keeps, starting at the buffer
BufSize == 16
\* every string over Alphabet of at most this length is an input format
MaxFmtLen == 2
\* calls in a row that SpecSeq explores
MaxCalls == 2

(* Program constants *)

\* <stdint.h> SIZE_MAX of a 16-bit size_t (AVR, the Arduino Uno target)
SIZE_MAX == 65535
CSTRUCT_DIV10_THRESHOLD == SIZE_MAX \div 10
CSTRUCT_DIV10_MAX_LAST_DIGIT == SIZE_MAX % 10

CSTRUCT_ENDIAN_LITTLE == "little"
CSTRUCT_ENDIAN_BIG == "big"

NUL == ""
NULL == 0

\* a product of two size_t values
SizeMul(a, b) == (a * b) % (SIZE_MAX + 1)

Min(a, b) == IF a < b THEN a ELSE b

-----------------------------------------------------------------------------
(* Format token parser *)

CharAt(f, p) == IF p >= 1 /\ p <= Len(f) THEN f[p] ELSE NUL

Digits == <<"0", "1", "2", "3", "4", "5", "6", "7", "8", "9">>

isdigit(c) == \E d \in 1..10 : Digits[d] = c

DigitValue(c) == (CHOOSE d \in 1..10 : Digits[d] = c) - 1

\* type letter -> type and element size (the switch of parse_token)
TypeTable ==
    [b |-> [type |-> "INT8",    size |-> 1],
     B |-> [type |-> "UINT8",   size |-> 1],
     h |-> [type |-> "INT16",   size |-> 2],
     H |-> [type |-> "UINT16",  size |-> 2],
     i |-> [type |-> "INT32",   size |-> 4],
     I |-> [type |-> "UINT32",  size |-> 4],
     q |-> [type |-> "INT64",   size |-> 8],
     Q |-> [type |-> "UINT64",  size |-> 8],
     t |-> [type |-> "INT128",  size |-> 16],
     T |-> [type |-> "UINT128", size |-> 16],
     e |-> [type |-> "FLOAT16", size |-> 2],
     f |-> [type |-> "FLOAT32", size |-> 4],
     d |-> [type |-> "FLOAT64", size |-> 8]]

NumericLetters == DOMAIN TypeTable

NoTok == [type |-> "NONE", endian |-> CSTRUCT_ENDIAN_LITTLE, size |-> 0, count |-> 0]

\* (mutant of ScanEndian) a '<' is skipped without switching back to
\* little-endian
RECURSIVE ScanEndian_NoReset(_, _, _)
ScanEndian_NoReset(f, p, endian) ==
    IF CharAt(f, p) = "<" THEN ScanEndian_NoReset(f, p + 1, endian)
    ELSE IF CharAt(f, p) = ">" THEN ScanEndian_NoReset(f, p + 1, CSTRUCT_ENDIAN_BIG)
    ELSE [p |-> p, endian |-> endian]

\* The endianness markers at the head of parse_token's loop: skips '<' and
\* '>' from position p on, returns the position reached and the endianness.
RECURSIVE ScanEndian(_, _, _)
ScanEndian(f, p, endian) ==
    IF CharAt(f, p) = "<" THEN ScanEndian(f, p + 1, CSTRUCT_ENDIAN_LITTLE)
    ELSE IF CharAt(f, p) = ">" THEN ScanEndian(f, p + 1, CSTRUCT_ENDIAN_BIG)
    ELSE [p |-> p, endian |-> endian]

\* (mutant of ScanCount) the accumulation has no overflow check and wraps
\* in size_t
RECURSIVE ScanCount_Wrapping(_, _, _)
ScanCount_Wrapping(f, p, count) ==
    IF isdigit(CharAt(f, p))
    THEN ScanCount_Wrapping(f, p + 1, (count * 10 + DigitValue(CharAt(f, p))) % (SIZE_MAX + 1))
    ELSE [ok |-> TRUE, p |-> p, count |-> count]

\* The digit loop of parse_token: accumulates the decimal count from
\* position p on; ok = FALSE is the overflow return.
RECURSIVE ScanCount(_, _, _)
ScanCount(f, p, count) ==
    IF isdigit(CharAt(f, p))
    THEN LET digit == DigitValue(CharAt(f, p)) IN
         IF count > CSTRUCT_DIV10_THRESHOLD
            \/ (count = CSTRUCT_DIV10_THRESHOLD /\ digit > CSTRUCT_DIV10_MAX_LAST_DIGIT)
         THEN [ok |-> FALSE, p |-> p, count |-> count]
         ELSE ScanCount(f, p + 1, count * 10 + digit)
    ELSE [ok |-> TRUE, p |-> p, count |-> count]

\* (mutant of parse_token) a character that is no type letter is taken as
\* a padding byte
parse_token_UnknownIsPadding(f, fmt_in, endian) ==
    LET m == ScanEndian(f, fmt_in, endian)
        failed == [next |-> NULL, tok |-> NoTok, endian |-> m.endian]
        c == IF isdigit(CharAt(f, m.p)) THEN ScanCount(f, m.p, 0)
             ELSE [ok |-> TRUE, p |-> m.p, count |-> 1]
        count == IF c.count = 0 THEN 1 ELSE c.count
        letter == CharAt(f, c.p)
    IN
    IF CharAt(f, m.p) = NUL \/ ~c.ok \/ letter = NUL THEN failed
    ELSE IF letter \in NumericLetters
    THEN [next |-> c.p + 1,
          tok |-> [type |-> TypeTable[letter].type, endian |-> m.endian,
                   size |-> TypeTable[letter].size, count |-> count],
          endian |-> m.endian]
    ELSE [next |-> c.p + 1,
          tok |-> [type |-> IF letter = "s" THEN "STRING" ELSE "PADDING",
                   endian |-> m.endian, size |-> count, count |-> 1],
          endian |-> m.endian]

\* (mutant of parse_token) a count of 0 is kept as it is
parse_token_KeepsZero(f, fmt_in, endian) ==
    LET m == ScanEndian(f, fmt_in, endian)
        failed == [next |-> NULL, tok |-> NoTok, endian |-> m.endian]
        c == IF isdigit(CharAt(f, m.p)) THEN ScanCount(f, m.p, 0)
             ELSE [ok |-> TRUE, p |-> m.p, count |-> 1]
        letter == CharAt(f, c.p)
    IN
    IF CharAt(f, m.p) = NUL \/ ~c.ok THEN failed
    ELSE IF letter \in NumericLetters
    THEN [next |-> c.p + 1,
          tok |-> [type |-> TypeTable[letter].type, endian |-> m.endian,
                   size |-> TypeTable[letter].size, count |-> c.count],
          endian |-> m.endian]
    ELSE IF letter \in {"s", "x"}
    THEN [next |-> c.p + 1,
          tok |-> [type |-> IF letter = "s" THEN "STRING" ELSE "PADDING",
                   endian |-> m.endian, size |-> c.count, count |-> 1],
          endian |-> m.endian]
    ELSE failed

\* parse_token(fmt_in, tok_out, current_endian): next = NULL on failure,
\* else the position after the token; endian is *current_endian afterwards
\* (the markers passed are applied even when the call fails).
parse_token(f, fmt_in, endian) ==
    LET m == ScanEndian(f, fmt_in, endian)
        failed == [next |-> NULL, tok |-> NoTok, endian |-> m.endian]
    IN
    IF CharAt(f, m.p) = NUL THEN failed
    ELSE
      LET c == IF isdigit(CharAt(f, m.p))
               THEN ScanCount(f, m.p, 0)
               ELSE [ok |-> TRUE, p |-> m.p, count |-> 1]
          count == IF c.count = 0 THEN 1 ELSE c.count
          letter == CharAt(f, c.p)
      IN
      IF ~c.ok THEN failed
      ELSE IF letter \in NumericLetters
      THEN [next |-> c.p + 1,
            tok |-> [type |-> TypeTable[letter].type, endian |-> m.endian,
                     size |-> TypeTable[letter].size, count |-> count],
            endian |-> m.endian]
      ELSE IF letter = "s"
      THEN [next |-> c.p + 1,
            tok |-> [type |-> "STRING", endian |-> m.endian,
                     size |-> count, count |-> 1],
            endian |-> m.endian]
      ELSE IF letter = "x"
      THEN [next |-> c.p + 1,
            tok |-> [type |-> "PADDING", endian |-> m.endian,
                     size |-> count, count |-> 1],
            endian |-> m.endian]
      ELSE failed

-----------------------------------------------------------------------------
(* Endian codec *)

Reverse(s) == [i \in 1..Len(s) |-> s[Len(s) + 1 - i]]

\* forward copy of size bytes: dst[i] = s[i]
cstruct_store_fw(src, size) == [i \in 1..size |-> src[i]]

\* reversing copy of size bytes: dst[i] = s[size - 1 - i]
cstruct_store_rev(src, size) == [i \in 1..size |-> src[size + 1 - i]]

cstruct_store_le(src, size) ==
    IF bigEndianHost THEN cstruct_store_rev(src, size) ELSE cstruct_store_fw(src, size)

\* (mutant of cstruct_store_be) reverses whatever the host order is
cstruct_store_be_AlwaysReverse(src, size) == cstruct_store_rev(src, size)

cstruct_store_be(src, size) ==
    IF bigEndianHost THEN cstruct_store_fw(src, size) ELSE cstruct_store_rev(src, size)

cstruct_load_fw(src, size) == [i \in 1..size |-> src[i]]

cstruct_load_rev(src, size) == [i \in 1..size |-> src[size + 1 - i]]

\* (mutant of cstruct_load_le) copies forward whatever the host order is
cstruct_load_le_AlwaysForward(src, size) == cstruct_load_fw(src, size)

cstruct_load_le(src, size) ==
    IF bigEndianHost THEN cstruct_load_rev(src, size) ELSE cstruct_load_fw(src, size)

\* (mutant of cstruct_load_be) reverses whatever the host order is
cstruct_load_be_AlwaysReverse(src, size) == cstruct_load_rev(src, size)

cstruct_load_be(src, size) ==
    IF bigEndianHost THEN cstruct_load_fw(src, size) ELSE cstruct_load_rev(src, size)

\* The bytes of the C object that holds value v (given least significant
\* byte first), in the order this host keeps them in memory: what `&value`
\* points to in the typed primitives.
ObjectBytes(v) == IF bigEndianHost THEN Reverse(v) ELSE v

\* The value (least significant byte first) of the C object whose memory
\* holds the bytes m: what `*value` is after a load into it.
ObjectValue(m) == IF bigEndianHost THEN Reverse(m) ELSE m

-----------------------------------------------------------------------------
(* Half-float converter.  A binary32 is its 32-bit pattern as 4 bytes,    *)
(* least significant first; a binary16 is its 16-bit pattern as a number.  *)

Pow2(n) == 2 ^ n

\* bits >> n for a non-negative number
Shr(x, n) == x \div Pow2(n)

\* the byte swap both converters apply to the 32-bit pattern on a
\* big-endian host
Swap32(b) == IF bigEndianHost THEN Reverse(b) ELSE b

cstruct_float_to_half(f) ==
    LET bits == Swap32(f)
        sign == (bits[4] \div 128) * 32768
        bexp == (bits[4] % 128) * 2 + (bits[3] \div 128)
        mant == (bits[3] % 128) * 65536 + bits[2] * 256 + bits[1]
        expo == bexp - 127 + 15
        frac == Shr(mant, 13)
    IN
    IF expo <= 0
    THEN IF expo < -10
         THEN sign
         ELSE LET f1 == mant + 8388608
                  f2 == Shr(f1, 1 - expo)
                  f3 == Shr(f2 + 4096, 13)
              IN  sign + f3
    ELSE IF expo >= 31
    THEN IF mant # 0
         THEN sign + 31744 + Shr(mant, 13)
         ELSE sign + 31744
    ELSE sign + expo * 1024 + frac

\* the normalisation loop of cstruct_half_to_float: shifts frac left until
\* bit 10 is set, decrementing expo each time
RECURSIVE Normalize(_, _)
Normalize(frac, expo) ==
    IF (frac \div 1024) % 2 = 0
    THEN Normalize(frac * 2, expo - 1)
    ELSE [frac |-> frac, expo |-> expo]

\* the 32-bit pattern sign<<31 | bexp<<23 | mant, as 4 bytes
Bits32(sign, bexp, mant) ==
    <<mant % 256,
      (mant \div 256) % 256,
      (bexp % 2) * 128 + (mant \div 65536),
      sign * 128 + (bexp \div 2)>>

cstruct_half_to_float(h) ==
    LET sign == (h \div 32768) % 2
        expo == (h \div 1024) % 32
        frac == h % 1024
        f == IF expo = 0
             THEN IF frac = 0
                  THEN Bits32(sign, 0, 0)
                  ELSE LET n == Normalize(frac, expo)
                       IN  Bits32(sign, (n.expo + 1) + (127 - 15), (n.frac % 1024) * 8192)
             ELSE IF expo = 31
             THEN Bits32(sign, 255, frac * 8192)
             ELSE Bits32(sign, expo + (127 - 15), frac * 8192)
    IN  Swap32(f)

\* a 16-bit pattern as the 2 bytes of a uint16_t value
Half16(h) == <<h % 256, h \div 256>>

-----------------------------------------------------------------------------
(* The argument list.  A slot of the list is a small number that stands    *)
(* for what the caller passed there; the engine reads it the way the token *)
(* asks: as a scalar value, as a pointer to an array, or as a pointer to a *)
(* NUL-terminated string.                                                   *)

Slots == {1, 2, 3, 4, 5, 6}

\* the scalar a slot holds, as 16 bytes, least significant first (a token
\* of width w takes the low w bytes): 0x1234, 0x5678,
\* 0x...9ABCDEF012345678, -1, 0, 0x8080...80; slots 7 to 11 hold the floats
\* 1.0f, -2.0f, 65504.0f, 0.1f, 100000.0f as their binary32 patterns
ArgValue(s) ==
    CASE s = 1 -> <<52, 18, 0, 0, 0, 0, 0, 0, 0, 0, 0, 0, 0, 0, 0, 0>>
      [] s = 2 -> <<120, 86, 0, 0, 0, 0, 0, 0, 0, 0, 0, 0, 0, 0, 0, 0>>
      [] s = 3 -> <<120, 86, 52, 18, 240, 222, 188, 154, 1, 35, 69, 103, 137, 171, 205, 239>>
      [] s = 4 -> [i \in 1..16 |-> 255]
      [] s = 5 -> [i \in 1..16 |-> 0]
      [] s = 6 -> [i \in 1..16 |-> 128]
      [] s = 7 -> <<0, 0, 128, 63, 0, 0, 0, 0, 0, 0, 0, 0, 0, 0, 0, 0>>
      [] s = 8 -> <<0, 0, 0, 192, 0, 0, 0, 0, 0, 0, 0, 0, 0, 0, 0, 0>>
      [] s = 9 -> <<0, 224, 127, 71, 0, 0, 0, 0, 0, 0, 0, 0, 0, 0, 0, 0>>
      [] s = 10 -> <<205, 204, 204, 61, 0, 0, 0, 0, 0, 0, 0, 0, 0, 0, 0, 0>>
      [] s = 11 -> <<0, 80, 195, 71, 0, 0, 0, 0, 0, 0, 0, 0, 0, 0, 0, 0>>
      [] OTHER -> [i \in 1..16 |-> 0]

\* the string a slot points to, without its terminator:
\* "Hi", "Hello!", "", "Hello", "A", "Hello!"
ArgString(s) ==
    CASE s = 1 -> <<72, 105>>
      [] s = 2 -> <<72, 101, 108, 108, 111, 33>>
      [] s = 3 -> <<>>
      [] s = 4 -> <<72, 101, 108, 108, 111>>
      [] s = 5 -> <<65>>
      [] OTHER -> <<72, 101, 108, 108, 111, 33>>

\* element i (from 0) of the array a slot points to
ArrayElem(s, i) == ArgValue(((s - 1 + i) % 6) + 1)

\* the k-th slot (from 1) of an argument list
Arg(a, k) == a[((k - 1) % Len(a)) + 1]

-----------------------------------------------------------------------------
(* Per-type pack / unpack primitives *)

\* (mutant of Narrow) a value that does not fit the type is clamped to the
\* all-ones pattern
Narrow_Saturating(v, size) ==
    IF \E i \in (size + 1)..Len(v) : v[i] # 0
    THEN [i \in 1..size |-> 255]
    ELSE [i \in 1..size |-> v[i]]

\* conversion of an argument to the token's type: the low size bytes
Narrow(v, size) == [i \in 1..size |-> v[i]]

\* cstruct_pack_<type>_<le|be>(dst, value): the bytes stored at dst
PackElem(t, v) ==
    IF t.type \in {"INT8", "UINT8"}
    THEN <<v[1]>>
    ELSE LET value == IF t.type = "FLOAT16"
                      THEN Half16(cstruct_float_to_half(Narrow(v, 4)))
                      ELSE Narrow(v, t.size)
         IN  IF t.endian = CSTRUCT_ENDIAN_LITTLE
             THEN cstruct_store_le(ObjectBytes(value), t.size)
             ELSE cstruct_store_be(ObjectBytes(value), t.size)

\* cstruct_unpack_<type>_<le|be>(src, value): the value stored through
\* `value`, from the size bytes at src
UnpackElem(t, src) ==
    IF t.type \in {"INT8", "UINT8"}
    THEN <<src[1]>>
    ELSE LET value == ObjectValue(IF t.endian = CSTRUCT_ENDIAN_LITTLE
                                  THEN cstruct_load_le(src, t.size)
                                  ELSE cstruct_load_be(src, t.size))
         IN  IF t.type = "FLOAT16"
             THEN cstruct_half_to_float(value[1] + 256 * value[2])
             ELSE value

\* (mutant of cstruct_pack_string) keeps the last byte of the field for a
\* terminator
cstruct_pack_string_Terminated(value, size) ==
    LET copy_len == IF Len(value) < size - 1 THEN Len(value) ELSE size - 1
    IN  [j \in 1..size |-> IF j <= copy_len THEN value[j] ELSE 0]

\* cstruct_pack_string(dst, value, size): the size bytes stored at dst
cstruct_pack_string(value, size) ==
    LET copy_len == IF Len(value) < size THEN Len(value) ELSE size
    IN  [j \in 1..size |-> IF j <= copy_len THEN value[j] ELSE 0]

\* (mutant of cstruct_unpack_string) the terminator takes the place of the
\* last byte of the field
cstruct_unpack_string_Inside(src, size) ==
    [j \in 1..size |-> IF j < size THEN src[j] ELSE 0]

\* cstruct_unpack_string(src, value, size): the size + 1 bytes stored at value
cstruct_unpack_string(src, size) ==
    [j \in 1..(size + 1) |-> IF j <= size THEN src[j] ELSE 0]

\* cstruct_pack_padding(dst, size): the new cursor
cstruct_pack_padding(dst, size) == dst + size

-----------------------------------------------------------------------------
(* Pack / unpack engine and field locator *)

\* (mutant of InitialEndian) the endianness the previous call ended with
InitialEndian_Stale == current_endian

\* the running endianness a call starts with
InitialEndian == CSTRUCT_ENDIAN_LITTLE

\* tok.size * tok.count as the bounds check computes it, in size_t
DeclaredSize(t) == SizeMul(t.size, t.count)

\* the bounds check of pack and unpack: passes unless
\* (size_t)(end - out) < tok.size * tok.count
Fits(remaining, t) == ~(remaining < DeclaredSize(t))

\* the bounds check of get_ptr: passes unless (size_t)(end - in) < tok.size
FitsField(remaining, t) == ~(remaining < t.size)

\* (mutant of SlotsTaken) an array takes one slot per element
SlotsTaken_PerElement(t) == IF t.type = "PADDING" THEN 0 ELSE t.count

\* number of va_arg slots a token takes
SlotsTaken(t) == IF t.type = "PADDING" THEN 0 ELSE 1

\* bytes of the buffer the dispatch stores (pack) or loads (unpack) for
\* token t: its element loop runs tok.count times and each primitive moves
\* tok.size bytes; padding touches none
BytesAccessed(t) == IF t.type = "PADDING" THEN 0 ELSE t.size * t.count

\* (mutant of NextCursor) the cursor moves by one element, whatever the
\* repeat count
NextCursor_OneElement(t, o) ==
    IF t.type = "PADDING"
    THEN cstruct_pack_padding(o, DeclaredSize(t))
    ELSE o + t.size

\* the cursor after the dispatch for token t at cursor o
NextCursor(t, o) ==
    IF t.type = "PADDING"
    THEN cstruct_pack_padding(o, DeclaredSize(t))
    ELSE o + t.size * t.count

\* the byte pack stores at offset r (from 0) of the region of token t,
\* reading argument slot s
PackByte(t, s, r) ==
    IF t.type = "STRING"
    THEN cstruct_pack_string(ArgString(s), t.size)[r + 1]
    ELSE LET i == r \div t.size
             v == IF t.count > 1 THEN ArrayElem(s, i) ELSE ArgValue(s)
         IN  PackElem(t, v)[(r % t.size) + 1]

\* (mutant of PackInto) padding is filled with zero bytes
PackInto_ZeroPadding(b, t, s, o) ==
    [k \in 1..BufSize |->
        IF k > o /\ k <= o + t.size * t.count
        THEN IF t.type = "PADDING" THEN 0 ELSE PackByte(t, s, k - 1 - o)
        ELSE b[k]]

\* the buffer after the dispatch of pack for token t at cursor o
PackInto(b, t, s, o) ==
    [k \in 1..BufSize |->
        IF k > o /\ k <= o + BytesAccessed(t) THEN PackByte(t, s, k - 1 - o) ELSE b[k]]

\* n source bytes from offset o on
SrcBytes(b, o, n) == [j \in 1..n |-> IF o + j <= BufSize THEN b[o + j] ELSE 0]

\* (mutant of UnpackFrom) every element is read one byte too far
UnpackFrom_NextByte(b, t, o) ==
    IF t.type = "STRING"
    THEN <<cstruct_unpack_string(SrcBytes(b, o + 1, t.size), t.size)>>
    ELSE [i \in 1..t.count |-> UnpackElem(t, SrcBytes(b, o + 1 + (i - 1) * t.size, t.size))]

\* what the dispatch of unpack stores through the destination pointer of
\* token t read at cursor o: the sequence of its elements
UnpackFrom(b, t, o) ==
    IF t.type = "STRING"
    THEN <<cstruct_unpack_string(SrcBytes(b, o, t.size), t.size)>>
    ELSE [i \in 1..t.count |-> UnpackElem(t, SrcBytes(b, o + (i - 1) * t.size, t.size))]

Max(a, b) == IF a > b THEN a ELSE b

\* what the va_arg of function o reads for token t: a "value" passed in the
\* list, or a "pointer" (to an array, to a string, to a 16-byte block, to a
\* destination); "none" when the token takes no slot
SlotKind(o, t) ==
    IF t.type = "PADDING" \/ o = "get_ptr" THEN "none"
    ELSE IF o = "unpack" THEN "pointer"
    ELSE IF t.type = "STRING" \/ t.count > 1 THEN "pointer"
    ELSE IF t.type \in {"INT128", "UINT128"} THEN "pointer"
    ELSE "value"

\* the record kept of a token the loop has processed: the token, the cursor
\* before and after it, the format position after it, the number of the
\* argument slot it took (0: none) and what was read from that slot
Field(t, start, end, pos, slot) ==
    [tok |-> t, start |-> start, end |-> end, pos |-> pos, slot |-> slot,
     kind |-> SlotKind(op, t)]

\* entry of a call: the locals of cstruct_pack_v / cstruct_unpack_v /
\* cstruct_get_ptr are initialised
Call(o, f, n, a, k) ==
    /\ op' = o
    /\ fmt' = f
    /\ len' = n
    /\ args' = a
    /\ index' = k
    /\ next_fmt' = 1
    /\ lastEndian' = current_endian
    /\ current_endian' = InitialEndian
    /\ out' = 0
    /\ argi' = 0
    /\ current_index' = 0
    /\ tok' = NoTok
    /\ status' = "run"
    /\ buf0' = buf
    /\ fields' = <<>>
    /\ dests' = <<>>
    /\ hiAccess' = 0
    /\ calls' = calls + 1
    /\ UNCHANGED <<peer, bigEndianHost, buf>>

\* (mutant of FailedBuffer) a failing pack restores the destination
FailedBuffer_RolledBack(b, b0) == b0

\* the destination buffer b when pack returns NULL (b0: as it was when the
\* call started): the return leaves what was stored
FailedBuffer(b, b0) == b

\* one iteration of the while loop of cstruct_pack_v
PackStep ==
    /\ op = "pack" /\ status = "run"
    /\ CharAt(fmt, next_fmt) # NUL
    /\ LET r == parse_token(fmt, next_fmt, current_endian)
           t == r.tok
           s == Arg(args, argi + 1)
       IN
       /\ next_fmt' = r.next
       /\ current_endian' = r.endian
       /\ tok' = t
       /\ IF r.next = NULL \/ ~Fits(len - out, t)
          THEN /\ status' = "null"
               /\ buf' = FailedBuffer(buf, buf0)
               /\ UNCHANGED <<out, argi, fields, hiAccess>>
          ELSE /\ buf' = PackInto(buf, t, s, out)
               /\ out' = NextCursor(t, out)
               /\ argi' = argi + SlotsTaken(t)
               /\ fields' = Append(fields, Field(t, out, NextCursor(t, out), r.next,
                                                 IF SlotsTaken(t) = 0 THEN 0 ELSE argi + 1))
               /\ hiAccess' = IF BytesAccessed(t) > 0
                              THEN Max(hiAccess, out + BytesAccessed(t))
                              ELSE hiAccess
               /\ status' = IF out + BytesAccessed(t) > len THEN "undefined" ELSE "run"
    /\ UNCHANGED <<peer, bigEndianHost, op, fmt, len, args, index, current_index, buf0, dests,
                   lastEndian, calls>>

\* the while loop of cstruct_pack_v ends: return out
PackReturn ==
    /\ op = "pack" /\ status = "run"
    /\ CharAt(fmt, next_fmt) = NUL
    /\ status' = "ok"
    /\ UNCHANGED <<peer, bigEndianHost, buf, op, fmt, len, args, index, next_fmt, current_endian,
                   out, argi, current_index, tok, buf0, fields, dests, hiAccess,
                   lastEndian, calls>>

\* one iteration of the while loop of cstruct_unpack_v
UnpackStep ==
    /\ op = "unpack" /\ status = "run"
    /\ CharAt(fmt, next_fmt) # NUL
    /\ LET r == parse_token(fmt, next_fmt, current_endian)
           t == r.tok
       IN
       /\ next_fmt' = r.next
       /\ current_endian' = r.endian
       /\ tok' = t
       /\ IF r.next = NULL \/ ~Fits(len - out, t)
          THEN /\ status' = "null"
               /\ UNCHANGED <<out, argi, fields, dests, hiAccess>>
          ELSE /\ out' = NextCursor(t, out)
               /\ argi' = argi + SlotsTaken(t)
               /\ fields' = Append(fields, Field(t, out, NextCursor(t, out), r.next,
                                                 IF SlotsTaken(t) = 0 THEN 0 ELSE argi + 1))
               /\ hiAccess' = IF BytesAccessed(t) > 0
                              THEN Max(hiAccess, out + BytesAccessed(t))
                              ELSE hiAccess
               /\ IF out + BytesAccessed(t) > len
                  THEN status' = "undefined" /\ dests' = dests
                  ELSE /\ status' = "run"
                       /\ dests' = IF SlotsTaken(t) = 0 THEN dests
                                   ELSE Append(dests, UnpackFrom(buf, t, out))
    /\ UNCHANGED <<peer, bigEndianHost, buf, op, fmt, len, args, index, current_index, buf0,
                   lastEndian, calls>>

\* the while loop of cstruct_unpack_v ends: return in
UnpackReturn ==
    /\ op = "unpack" /\ status = "run"
    /\ CharAt(fmt, next_fmt) = NUL
    /\ status' = "ok"
    /\ UNCHANGED <<peer, bigEndianHost, buf, op, fmt, len, args, index, next_fmt, current_endian,
                   out, argi, current_index, tok, buf0, fields, dests, hiAccess,
                   lastEndian, calls>>

\* (mutant of NextIndex) the field counter counts the elements of an array
NextIndex_PerElement(t, i) == i + t.count

\* current_index++ of cstruct_get_ptr, after token t
NextIndex(t, i) == i + 1

\* one iteration of the while loop of cstruct_get_ptr
GetPtrStep ==
    /\ op = "get_ptr" /\ status = "run"
    /\ CharAt(fmt, next_fmt) # NUL
    /\ LET r == parse_token(fmt, next_fmt, current_endian)
           t == r.tok
       IN
       /\ next_fmt' = r.next
       /\ current_endian' = r.endian
       /\ tok' = t
       /\ IF r.next = NULL \/ ~FitsField(len - out, t)
          THEN /\ status' = "null"
               /\ UNCHANGED <<out, current_index, fields>>
          ELSE IF current_index = index
          THEN /\ status' = "ok"
               /\ UNCHANGED <<out, current_index, fields>>
          ELSE /\ status' = "run"
               /\ current_index' = NextIndex(t, current_index)
               /\ out' = out + t.size
               /\ fields' = Append(fields, Field(t, out, out + t.size, r.next, 0))
    /\ UNCHANGED <<peer, bigEndianHost, buf, op, fmt, len, args, index, argi, buf0, dests,
                   hiAccess, lastEndian, calls>>

\* the while loop of cstruct_get_ptr ends: the field was not found
GetPtrReturn ==
    /\ op = "get_ptr" /\ status = "run"
    /\ CharAt(fmt, next_fmt) = NUL
    /\ status' = "null"
    /\ UNCHANGED <<peer, bigEndianHost, buf, op, fmt, len, args, index, next_fmt, current_endian,
                   out, argi, current_index, tok, buf0, fields, dests, hiAccess,
                   lastEndian, calls>>

-----------------------------------------------------------------------------
(* Inputs *)

\* formats of the documentation, the examples and the corner cases
ExampleFormats ==
    { <<>>,
      <<"I">>, <<"<", "I">>, <<">", "I">>,
      <<"<", "H", ">", "H">>, <<">", "H", "<", "H">>,
      <<"I", "4", "x", "I">>,
      <<"H", "4", "x", "H">>,
      <<"5", "s">>, <<"2", "s", "B">>,
      <<"H", "B", "I">>,
      <<">", "3", "H">>, <<"3", "b">>, <<"<", "2", "i", "x", "b">>,
      <<"q">>, <<">", "Q">>, <<"h">>, <<">", "i">>,
      <<"e">>, <<">", "f">>, <<"d">>, <<"t">>, <<">", "2", "e">>,
      <<"x", "3">>, <<"3", "x">>,
      <<"H", ">">>,
      <<"0", "0", "2", "B">>,
      <<"6", "5", "5", "3", "5", "B">>,
      <<"6", "5", "5", "3", "6", "B">>,
      <<"3", "2", "7", "6", "8", "H">>,
      <<"3", "2", "7", "6", "9", "H">>,
      <<"4", "0", "9", "6", "T">>,
      <<"H", "1", "6", "3", "8", "4", "I">>,
      <<"0", "0", "6", "5", "5", "3", "5", "s">>,
      <<"6", "5", "5", "3", "6", "x">>,
      <<"H", "9", "9", "9", "9", "9", "H">>,
      <<">", "e", "f", "d">> }

Alphabet == {"<", ">", "0", "2", "H", "B", "x", "s", "?"}

RECURSIVE StringsUpTo(_)
StringsUpTo(n) ==
    IF n = 0 THEN {<<>>}
    ELSE LET shorter == StringsUpTo(n - 1)
         IN  shorter \cup {Append(w, c) : w \in {v \in shorter : Len(v) = n - 1}, c \in Alphabet}

Formats == ExampleFormats \cup StringsUpTo(MaxFmtLen)

Lens == {0, 1, 3, 4, 8, BufSize}

ArgLists == {<<1, 2, 3, 4>>, <<3, 4, 5, 6>>, <<2, 1, 6, 5>>, <<4, 3, 2, 1>>}

Indexes == {0, 1, 2}

\* the buffer before the first call: filled with 0xAA, or a ramp
InitBufs == { [k \in 1..BufSize |-> 170], [k \in 1..BufSize |-> 16 + k] }

\* the buffer of the second thread, disjoint from buf
PeerBuf == [k \in 1..BufSize |-> 255 - k]

\* the second thread before it calls anything
IdlePeer ==
    [buf |-> PeerBuf, op |-> "none", fmt |-> <<>>, len |-> 0, args |-> <<>>, index |-> 0,
     next_fmt |-> 1, current_endian |-> CSTRUCT_ENDIAN_LITTLE, out |-> 0, argi |-> 0,
     current_index |-> 0, tok |-> NoTok, status |-> "idle", buf0 |-> PeerBuf,
     fields |-> <<>>, dests |-> <<>>, hiAccess |-> 0,
     lastEndian |-> CSTRUCT_ENDIAN_LITTLE, switches |-> 0]

Init ==
    /\ bigEndianHost \in BOOLEAN
    /\ peer = IdlePeer
    /\ buf \in InitBufs
    /\ op = "none"
    /\ fmt = <<>>
    /\ len = 0
    /\ args = <<>>
    /\ index = 0
    /\ next_fmt = 1
    /\ current_endian = CSTRUCT_ENDIAN_LITTLE
    /\ out = 0
    /\ argi = 0
    /\ current_index = 0
    /\ tok = NoTok
    /\ status = "idle"
    /\ buf0 = buf
    /\ fields = <<>>
    /\ dests = <<>>
    /\ hiAccess = 0
    /\ lastEndian = CSTRUCT_ENDIAN_LITTLE
    /\ calls = 0

\* the caller calls cstruct_pack
CallPack ==
    /\ status = "idle"
    /\ \E f \in Formats, n \in Lens, a \in ArgLists : Call("pack", f, n, a, 0)

\* the caller calls cstruct_unpack
CallUnpack ==
    /\ status = "idle"
    /\ \E f \in Formats, n \in Lens : Call("unpack", f, n, <<>>, 0)

\* the caller calls cstruct_get_ptr
CallGetPtr ==
    /\ status = "idle"
    /\ \E f \in Formats, n \in Lens, k \in Indexes : Call("get_ptr", f, n, <<>>, k)

Next ==
    \/ CallPack
    \/ CallUnpack
    \/ CallGetPtr
    \/ PackStep
    \/ PackReturn
    \/ UnpackStep
    \/ UnpackReturn
    \/ GetPtrStep
    \/ GetPtrReturn

Spec == Init /\ [][Next]_vars

-----------------------------------------------------------------------------
(* Round trips: a pack of integer tokens, then an unpack of the bytes it   *)
(* produced with the same format.                                           *)

\* largest repeat count of the round-trip formats (one digit)
MaxCount == 3

IntegerLetters == {"b", "B", "h", "H", "i", "I", "q", "Q"}

RTFormats ==
    { m \o c \o <<l>> :
        m \in {<<>>, <<"<">>, <<">">>},
        c \in {<<>>} \cup {<<Digits[n + 1]>> : n \in 1..MaxCount},
        l \in IntegerLetters }
    \cup { <<"b", ">", "2", "H", "<", "i", "B">>, <<"1", "2", "B">>, <<">", "0", "8", "h">> }

RTLens == {8, BufSize}

CallPackRT ==
    /\ status = "idle"
    /\ \E f \in RTFormats, n \in RTLens, a \in ArgLists : Call("pack", f, n, a, 0)

\* the caller unpacks the bytes the pack produced, with the same format;
\* args keeps the values that were packed (unpack reads no slot value: its
\* slots are the destination pointers)
UnpackBack ==
    /\ status = "ok" /\ op = "pack"
    /\ Call("unpack", fmt, out, args, 0)

NextRT ==
    \/ CallPackRT
    \/ PackStep
    \/ PackReturn
    \/ UnpackBack
    \/ UnpackStep
    \/ UnpackReturn

SpecRT == Init /\ [][NextRT]_vars

-----------------------------------------------------------------------------
(* Sequences of calls on one buffer *)

SeqFormats ==
    { <<"H">>, <<">", "H">>, <<"<", "H", ">", "H">>, <<">", "?">>, <<"H", ">">>,
      <<">", "2", "B", "<", "h">> }

SeqLens == {3, BufSize}

CallSeqPack ==
    /\ status \in {"idle", "ok", "null"} /\ calls < MaxCalls
    /\ \E f \in SeqFormats, n \in SeqLens : Call("pack", f, n, <<1, 2, 3, 4>>, 0)

CallSeqUnpack ==
    /\ status \in {"idle", "ok", "null"} /\ calls < MaxCalls
    /\ \E f \in SeqFormats, n \in SeqLens : Call("unpack", f, n, <<>>, 0)

CallSeqGetPtr ==
    /\ status \in {"idle", "ok", "null"} /\ calls < MaxCalls
    /\ \E f \in SeqFormats, n \in SeqLens : Call("get_ptr", f, n, <<>>, 1)

NextSeq ==
    \/ CallSeqPack
    \/ CallSeqUnpack
    \/ CallSeqGetPtr
    \/ PackStep
    \/ PackReturn
    \/ UnpackStep
    \/ UnpackReturn
    \/ GetPtrStep
    \/ GetPtrReturn

SpecSeq == Init /\ [][NextSeq]_vars

-----------------------------------------------------------------------------
(* Claims *)

\* the call has not left the defined behaviour of C
Defined == status \in {"run", "ok", "null"}

IntegerTypes == {"INT8", "UINT8", "INT16", "UINT16", "INT32", "UINT32", "INT64", "UINT64"}

\* the value a pack token stores as its element e (from 0), converted to
\* the token's width
PackedValue(fld, e) ==
    LET s == Arg(args, fld.slot)
    IN  Narrow(IF fld.tok.count > 1 THEN ArrayElem(s, e) ELSE ArgValue(s), fld.tok.size)

\* C1: pack writes only destination bytes at offsets in [0, dstlen) and
\* unpack reads only source bytes at offsets in [0, srclen), for every
\* format the parser accepts, whatever its repeat counts.
C1_AccessWithinBuffer == hiAccess <= len

\* C2: when pack reaches a token whose declared size, element size times
\* repeat count, exceeds the remaining capacity, pack returns NULL and no
\* byte at or after the token's start offset has been written.
C2_OversizeTokenRejected ==
    (op = "pack" /\ tok # NoTok) =>
        LET start == IF status = "null" THEN out ELSE fields[Len(fields)].start
        IN  (tok.size * tok.count > len - start) =>
                /\ status = "null"
                /\ \A k \in 1..BufSize : k > start => buf[k] = buf0[k]

\* the width of a type letter as the format language defines it
C3_Width(c) ==
    CASE c \in {"b", "B"} -> 1
      [] c \in {"h", "H", "e"} -> 2
      [] c \in {"i", "I", "f"} -> 4
      [] c \in {"q", "Q", "d"} -> 8
      [] c \in {"t", "T"} -> 16
      [] OTHER -> 0

\* the sum over the tokens of a format, from position p on with the count
\* n read so far (-1: no digit yet), of element size times repeat count;
\* an s or x token contributes its N, a marker nothing
RECURSIVE C3_Sum(_, _, _)
C3_Sum(f, p, n) ==
    IF p > Len(f) THEN 0
    ELSE IF f[p] \in {"<", ">"} THEN C3_Sum(f, p + 1, n)
    ELSE IF isdigit(f[p])
    THEN C3_Sum(f, p + 1, (IF n < 0 THEN 0 ELSE n * 10) + DigitValue(f[p]))
    ELSE LET count == IF n <= 0 THEN 1 ELSE n
         IN  (IF f[p] \in {"s", "x"} THEN count ELSE C3_Width(f[p]) * count)
             + C3_Sum(f, p + 1, -1)

\* C3: on success pack and unpack return the start pointer advanced by the
\* sum over all tokens of element size times repeat count, the same offset
\* for both, and the start pointer itself for the empty format.
C3_ReturnsSumOfSizes ==
    (op \in {"pack", "unpack"} /\ status = "ok") => out = C3_Sum(fmt, 1, -1)

C3_Witness ==
    /\ op = "pack" /\ status = "ok"
    /\ fmt = <<"I", "4", "x", "I">>
    /\ out = 12

\* C4: for every integer type, both endiannesses and every repeat count,
\* unpacking the bytes a pack produced, with the same format, succeeds and
\* yields the packed values, element by element in order.
C4_RoundTrip ==
    (op = "unpack") =>
        /\ status \in {"run", "ok"}
        /\ \A n \in 1..Len(fields) :
              /\ fields[n].slot = n
              /\ dests[n] = [e \in 1..fields[n].tok.count |-> PackedValue(fields[n], e - 1)]
        /\ status = "ok" => Len(dests) = Len(fields) /\ Len(fields) > 0

\* a big-endian array of three int16_t has gone round and is back
C4_Witness ==
    /\ op = "unpack" /\ status = "ok"
    /\ fmt = <<">", "3", "h">>
    /\ args = <<3, 4, 5, 6>>
    /\ dests = << <<Narrow(ArgValue(3), 2), Narrow(ArgValue(4), 2), Narrow(ArgValue(5), 2)>> >>

\* C5: packing an integer v of width w stores byte (v >> 8*i) & 0xFF at
\* offset i of its region when the token is little-endian and at offset
\* w-1-i when it is big-endian, on little- and big-endian hosts alike.
C5_ByteLayout ==
    (op = "pack" /\ Defined) =>
        \A n \in 1..Len(fields) :
            LET fld == fields[n]
                w == fld.tok.size
            IN  fld.tok.type \in IntegerTypes =>
                    \A e \in 0..(fld.tok.count - 1), i \in 0..(w - 1) :
                        LET at == IF fld.tok.endian = CSTRUCT_ENDIAN_LITTLE
                                  THEN i ELSE w - 1 - i
                        IN  buf[fld.start + e * w + at + 1] = PackedValue(fld, e)[i + 1]

\* 0x12345678 packed as ">I" on a big-endian host: 12 34 56 78
C5_Witness ==
    /\ op = "pack" /\ status = "ok" /\ bigEndianHost
    /\ fmt = <<">", "I">>
    /\ SubSeq(buf, 1, 4) = <<18, 52, 86, 120>>

\* the endianness the format language gives the token that ends before
\* position p: that of the last marker before p, little-endian without one
RECURSIVE C6_MarkerEndian(_, _)
C6_MarkerEndian(f, p) ==
    IF p <= 1 THEN CSTRUCT_ENDIAN_LITTLE
    ELSE IF f[p - 1] = "<" THEN CSTRUCT_ENDIAN_LITTLE
    ELSE IF f[p - 1] = ">" THEN CSTRUCT_ENDIAN_BIG
    ELSE C6_MarkerEndian(f, p - 1)

\* the bytes of a value in the byte order of an endianness
C6_Ordered(v, endian) == IF endian = CSTRUCT_ENDIAN_LITTLE THEN v ELSE Reverse(v)

\* C6: every token is encoded (pack) and decoded (unpack) with the
\* endianness of the most recent '<' or '>' before it in the format,
\* little-endian if there is none.
C6_EndianOfLastMarker ==
    (op \in {"pack", "unpack"} /\ Defined) =>
        \A n \in 1..Len(fields) :
            LET fld == fields[n]
                w == fld.tok.size
                endian == C6_MarkerEndian(fmt, fld.pos)
            IN  /\ fld.tok.endian = endian
                /\ fld.tok.type \in IntegerTypes =>
                     \A e \in 0..(fld.tok.count - 1) :
                        LET region == SubSeq(buf, fld.start + e * w + 1, fld.start + e * w + w)
                        IN  IF op = "pack"
                            THEN region = C6_Ordered(PackedValue(fld, e), endian)
                            ELSE C6_Ordered(dests[fld.slot][e + 1], endian) = region

\* "<H>H" with (0x1234, 0x5678): 34 12 56 78
C6_Witness ==
    /\ op = "pack" /\ status = "ok"
    /\ fmt = <<"<", "H", ">", "H">>
    /\ SubSeq(buf, 1, 4) = <<52, 18, 86, 120>>

\* C7: the running endianness is call-scoped: whatever calls came before,
\* and however they ended, a call starts little-endian and its running
\* endianness is at every step the one its own format has set so far.
C7_CallScopedEndian ==
    /\ (status = "run" /\ next_fmt = 1) => current_endian = CSTRUCT_ENDIAN_LITTLE
    /\ (status \in {"run", "ok"}) => current_endian = C6_MarkerEndian(fmt, next_fmt)
    /\ \A n \in 1..Len(fields) : fields[n].tok.endian = C6_MarkerEndian(fmt, fields[n].pos)

\* a call starts right after one that ended in big-endian mode
C7_Witness ==
    /\ calls = 2 /\ status = "run" /\ next_fmt = 1
    /\ lastEndian = CSTRUCT_ENDIAN_BIG
    /\ current_endian = CSTRUCT_ENDIAN_LITTLE

C9_PaddingZeroFilled ==
    (op = "pack" /\ status = "ok") =>
        \A n \in 1..Len(fields) :
            fields[n].tok.type = "PADDING" =>
                \A k \in (fields[n].start + 1)..fields[n].end : buf[k] = 0

\* C10: packing a string token Ns from a source of length L stores the
\* first min(L, N) source bytes, then N - min(L, N) zero bytes, advances
\* the cursor by N and writes nothing after the field.
C10_StringField ==
    (op = "pack" /\ Defined) =>
        /\ \A n \in 1..Len(fields) :
            LET fld == fields[n]
                N == fld.tok.size
                src == ArgString(Arg(args, fld.slot))
                m == Min(Len(src), N)
            IN  fld.tok.type = "STRING" =>
                    /\ fld.end = fld.start + N
                    /\ \A j \in 1..N :
                         buf[fld.start + j] = IF j <= m THEN src[j] ELSE 0
        /\ \A k \in 1..BufSize : k > out => buf[k] = buf0[k]

\* "Hi" as 5s: 48 69 00 00 00, and the byte after the field is untouched
C10_Witness ==
    /\ op = "pack" /\ status = "ok"
    /\ fmt = <<"5", "s">>
    /\ SubSeq(buf, 1, 5) = <<72, 105, 0, 0, 0>>
    /\ buf[6] = 170

\* a source longer than N is cut to N bytes, with no terminator: "Hello!"
\* as 5s gives "Hello"
C10_WitnessTruncated ==
    /\ op = "pack" /\ status = "ok"
    /\ fmt = <<"5", "s">>
    /\ SubSeq(buf, 1, 6) = <<72, 101, 108, 108, 111, 170>>

-----------------------------------------------------------------------------
(* String fields: unpacks of a caller's buffer, and unpacks of the bytes a *)
(* pack of the same format produced.                                        *)

StringFormats ==
    { <<"s">>, <<"0", "s">>, <<"1", "s">>, <<"2", "s">>, <<"5", "s">>, <<"6", "s">>,
      <<"8", "s">>, <<"9", "s">>, <<"2", "s", "B">>, <<"H", "5", "s">>,
      <<"3", "s", "3", "s">>, <<">", "h", "4", "s", "x">> }

CallPackString ==
    /\ status = "idle"
    /\ \E f \in StringFormats, n \in RTLens, a \in ArgLists : Call("pack", f, n, a, 0)

CallUnpackString ==
    /\ status = "idle"
    /\ \E f \in StringFormats, n \in RTLens : Call("unpack", f, n, <<>>, 0)

NextString ==
    \/ CallPackString
    \/ CallUnpackString
    \/ PackStep
    \/ PackReturn
    \/ UnpackBack
    \/ UnpackStep
    \/ UnpackReturn

SpecString == Init /\ [][NextString]_vars

\* the C string held in a char array: its bytes before the first NUL
RECURSIVE C11_CString(_)
C11_CString(b) ==
    IF b = <<>> \/ b[1] = 0 THEN <<>> ELSE <<b[1]>> \o C11_CString(Tail(b))

\* C11: unpacking a string token Ns copies exactly N source bytes to
\* destination offsets 0..N-1 and writes a NUL at offset N (N + 1 bytes
\* written), and the source cursor advances by N; unpacking the bytes a
\* pack of a string of length L produced, with the same Ns, yields the
\* string truncated to min(L, N) characters.
C11_UnpackString ==
    (op = "unpack" /\ Defined) =>
        \A n \in 1..Len(fields) :
            LET fld == fields[n]
                N == fld.tok.size
            IN  fld.tok.type = "STRING" =>
                    LET value == dests[fld.slot][1]
                        src == ArgString(Arg(args, fld.slot))
                    IN  /\ Len(dests[fld.slot]) = 1
                        /\ Len(value) = N + 1
                        /\ \A j \in 1..N : value[j] = buf0[fld.start + j]
                        /\ value[N + 1] = 0
                        /\ fld.end = fld.start + N
                        /\ calls = 2 =>
                              C11_CString(value) = SubSeq(src, 1, Min(Len(src), N))

\* "Hello!" packed as 5s and unpacked as 5s: "Hello" and the terminator
C11_Witness ==
    /\ op = "unpack" /\ status = "ok" /\ calls = 2
    /\ fmt = <<"5", "s">>
    /\ ArgString(Arg(args, 1)) = <<72, 101, 108, 108, 111, 33>>
    /\ dests = << <<<<72, 101, 108, 108, 111, 0>>>> >>

\* number of tokens other than padding among the first n processed
RECURSIVE C12_Ordinal(_)
C12_Ordinal(n) ==
    IF n = 0 THEN 0
    ELSE C12_Ordinal(n - 1) + (IF fields[n].tok.type = "PADDING" THEN 0 ELSE 1)

\* the k-th token other than padding takes the k-th slot, padding takes
\* none, and the slots taken so far are those of the tokens processed: the
\* token a call fails at has taken none
C12_Slots ==
    /\ \A n \in 1..Len(fields) :
          LET fld == fields[n]
          IN  /\ fld.slot = IF fld.tok.type = "PADDING" THEN 0 ELSE C12_Ordinal(n)
              /\ fld.tok.type = "PADDING" => fld.kind = "none"
              /\ (fld.tok.type # "PADDING" /\ op = "unpack") =>
                    /\ fld.kind = "pointer"
                    /\ Len(dests[fld.slot]) = fld.tok.count
              /\ (op = "pack" /\ fld.tok.type \in IntegerTypes) =>
                    \A e \in 0..(fld.tok.count - 1) :
                        LET w == fld.tok.size
                            src == Arg(args, C12_Ordinal(n))
                            v == IF fld.tok.count > 1 THEN ArrayElem(src, e) ELSE ArgValue(src)
                        IN  SubSeq(buf, fld.start + e * w + 1, fld.start + e * w + w)
                              = C6_Ordered(Narrow(v, w), fld.tok.endian)
              /\ (op = "pack" /\ (fld.tok.type = "STRING" \/ fld.tok.count > 1)) =>
                    fld.kind = "pointer"
    /\ argi = C12_Ordinal(Len(fields))
    /\ op = "unpack" => Len(dests) = argi

\* C12 as stated: one slot per token in format order, the k-th token other
\* than padding takes the k-th argument, a value for every scalar in pack,
\* a pointer for an array, a string and every unpack token; padding and
\* markers take none; a failed call has taken only the slots of the tokens
\* before the failing one.
C12_ScalarSlotIsValue ==
    (op \in {"pack", "unpack"} /\ Defined) =>
        /\ C12_Slots
        /\ op = "pack" =>
              \A n \in 1..Len(fields) :
                  (fields[n].tok.count = 1
                     /\ fields[n].tok.type \notin {"STRING", "PADDING"}) =>
                        fields[n].kind = "value"

\* C12, amended: as stated, except that a 128-bit scalar (t, T) in pack
\* takes a pointer to its 16 bytes; every other scalar takes a value.
C12_OneSlotPerToken ==
    (op \in {"pack", "unpack"} /\ Defined) =>
        /\ C12_Slots
        /\ op = "pack" =>
              \A n \in 1..Len(fields) :
                  (fields[n].tok.count = 1
                     /\ fields[n].tok.type \notin {"STRING", "PADDING"}) =>
                        fields[n].kind = IF fields[n].tok.type \in {"INT128", "UINT128"}
                                         THEN "pointer" ELSE "value"

\* "<2ixb": the array takes slot 1 as a pointer, the padding none, the
\* byte slot 2 as a value
C12_Witness ==
    /\ op = "pack" /\ status = "ok"
    /\ fmt = <<"<", "2", "i", "x", "b">>
    /\ argi = 2
    /\ [n \in 1..3 |-> fields[n].slot] = <<1, 0, 2>>
    /\ [n \in 1..3 |-> fields[n].kind] = <<"pointer", "none", "value">>

\* a call that failed at its third token has taken the slots of the first
\* two only
C12_WitnessFailed ==
    /\ op = "pack" /\ status = "null"
    /\ fmt = <<"H", "B", "I">>
    /\ Len(fields) = 2 /\ argi = 2

\* the type letters of the format language
C13_TypeLetters ==
    {"b", "B", "h", "H", "i", "I", "q", "Q", "t", "T", "e", "f", "d", "s", "x"}

\* the first position from p on whose character is not in set S
RECURSIVE C13_Skip(_, _, _)
C13_Skip(f, p, S) == IF p <= Len(f) /\ f[p] \in S THEN C13_Skip(f, p + 1, S) ELSE p

\* Reads the format as the format language defines it, from position p on
\* with k tokens read so far: `bad` is the position of the first error of
\* the kind C13 describes (a character at a token position that is no
\* marker, digit or type letter; the end of the string right after a run
\* of digits), 0 if there is none; `before` is the number of tokens that
\* precede it.
RECURSIVE C13_Scan(_, _, _)
C13_Scan(f, p, k) ==
    LET q == C13_Skip(f, p, {"<", ">"})
        r == C13_Skip(f, q, {Digits[d] : d \in 1..10})
    IN  IF q > Len(f) THEN [bad |-> 0, before |-> k]
        ELSE IF r > Len(f) THEN [bad |-> r, before |-> k]
        ELSE IF f[r] \in C13_TypeLetters THEN C13_Scan(f, r + 1, k + 1)
        ELSE IF f[r] \in {"<", ">"} THEN [bad |-> 0, before |-> k]
        ELSE [bad |-> r, before |-> k]

\* the call has returned
C13_Returned == status \in {"ok", "null"}

\* the parser stops at the error, not before: a call that has failed in
\* parse_token has processed every token before the error
C13_DetectedAtPosition ==
    LET e == C13_Scan(fmt, 1, 0)
    IN  (e.bad > 0 /\ Defined) =>
            /\ Len(fields) <= e.before
            /\ (status = "null" /\ next_fmt = NULL) => Len(fields) = e.before

\* C13 as stated: a format with a character at a token position that is
\* no marker, digit or type letter, or that ends right after a run of
\* digits, makes pack, unpack and get_ptr return NULL, the error being
\* detected when the parser reaches that position.
C13_BadFormatReturnsNull ==
    /\ C13_DetectedAtPosition
    /\ (C13_Scan(fmt, 1, 0).bad > 0 /\ C13_Returned) => status = "null"

\* C13, amended: such a format makes pack and unpack return NULL; get_ptr
\* returns NULL unless the field it is asked for lies before the error, in
\* which case it returns that field without having parsed up to the error.
C13_BadFormatReachedReturnsNull ==
    LET e == C13_Scan(fmt, 1, 0)
    IN  /\ C13_DetectedAtPosition
        /\ (e.bad > 0 /\ C13_Returned) =>
              IF op = "get_ptr" /\ index < e.before
              THEN status = "null" \/ (current_index = index /\ Len(fields) = index)
              ELSE status = "null"

\* pack of "H?" has stored the H and then returned NULL at the '?'
C13_Witness ==
    /\ op = "pack" /\ status = "null" /\ next_fmt = NULL
    /\ fmt = <<"H", "?">>
    /\ Len(fields) = 1
    /\ SubSeq(buf, 1, 2) # SubSeq(buf0, 1, 2)

\* the decimal value of the digit run that starts at position p, given the
\* value v of the digits read so far; values above SIZE_MAX are all
\* reported as SIZE_MAX + 1
RECURSIVE C14_Value(_, _, _)
C14_Value(f, p, v) ==
    IF p <= Len(f) /\ isdigit(f[p])
    THEN C14_Value(f, p + 1, Min(v * 10 + DigitValue(f[p]), SIZE_MAX + 1))
    ELSE v

\* the position where the digit run that ends just before position p starts
\* (p itself when no digit precedes p)
RECURSIVE C14_RunStart(_, _)
C14_RunStart(f, p) ==
    IF p > 1 /\ isdigit(f[p - 1]) THEN C14_RunStart(f, p - 1) ELSE p

\* token t, whose type letter is at position p of the format, carries the
\* exact value of the digit run before its letter (as its size for s and
\* x, as its count otherwise), and that value is at most SIZE_MAX
C14_Exact(t, p) ==
    LET start == C14_RunStart(fmt, p)
        V == C14_Value(fmt, start, 0)
    IN  (start < p /\ V # 0) =>
            /\ V <= SIZE_MAX
            /\ IF t.type \in {"STRING", "PADDING"} THEN t.size = V /\ t.count = 1
               ELSE t.count = V

\* the position at which the parse_token call that failed started
C14_FailedAt == IF fields = <<>> THEN 1 ELSE fields[Len(fields)].pos

\* C14: the accumulation of a repeat count never wraps: a token the parser
\* returns carries the exact decimal value of its digit run, which is at
\* most SIZE_MAX (leading zeros allowed); a run whose value exceeds
\* SIZE_MAX is a format error, on which pack, unpack and get_ptr return
\* NULL without touching the buffer for that token.
C14_CountNeverWraps ==
    /\ \A n \in 1..Len(fields) : C14_Exact(fields[n].tok, fields[n].pos - 1)
    /\ (tok # NoTok /\ next_fmt # NULL) => C14_Exact(tok, next_fmt - 1)
    /\ LET q == C13_Skip(fmt, C14_FailedAt, {"<", ">"})
       IN  (status \in {"run", "null"} /\ q <= Len(fmt) /\ C14_Value(fmt, q, 0) > SIZE_MAX) =>
               /\ next_fmt \in {NULL, C14_FailedAt}
               /\ next_fmt = NULL => status = "null"
               /\ \A k \in 1..BufSize : k > out => buf[k] = buf0[k]
               /\ hiAccess <= out

\* "H99999H": the H is packed, the run 99999 is a format error, and the
\* bytes after the H are as they were
C14_Witness ==
    /\ op = "pack" /\ status = "null" /\ next_fmt = NULL
    /\ fmt = <<"H", "9", "9", "9", "9", "9", "H">>
    /\ out = 2 /\ Len(fields) = 1
    /\ SubSeq(buf, 3, BufSize) = SubSeq(buf0, 3, BufSize)

\* the largest count, with leading zeros: "0065535s" is a string token of
\* 65535 bytes
C14_WitnessLargest ==
    /\ fmt = <<"0", "0", "6", "5", "5", "3", "5", "s">>
    /\ tok.type = "STRING" /\ tok.size = SIZE_MAX /\ tok.count = 1

\* token t, whose type letter is at position p of the format, is the token
\* the format language defines: N is the number before the letter, 1 when
\* it is absent or zero; a numeric or float letter gives its fixed width as
\* size and N as count, s and x give N as size and 1 as count
C15_Normal(t, p) ==
    LET start == C14_RunStart(fmt, p)
        V == C14_Value(fmt, start, 0)
        N == IF start = p \/ V = 0 THEN 1 ELSE V
    IN  /\ t.count >= 1 /\ t.size >= 1
        /\ IF fmt[p] \in {"s", "x"}
           THEN t.size = N /\ t.count = 1
           ELSE t.size = C3_Width(fmt[p]) /\ t.size \in {1, 2, 4, 8, 16} /\ t.count = N

\* the token of a one-token format
C15_Token(f) == parse_token(f, 1, CSTRUCT_ENDIAN_LITTLE).tok

\* C15: every token the parser emits has repeat count >= 1 and element
\* size >= 1: an absent or all-zero count is 1; a numeric or float letter
\* has its fixed width as size and the parsed number as count; s and x have
\* the parsed number as size and count 1; "s" is "1s", "x" is "1x", "0H"
\* is "H".
C15_TokenNormalized ==
    /\ \A n \in 1..Len(fields) : C15_Normal(fields[n].tok, fields[n].pos - 1)
    /\ (tok # NoTok /\ next_fmt # NULL) => C15_Normal(tok, next_fmt - 1)
    /\ (tok # NoTok /\ next_fmt # NULL /\ Len(fmt) = 1) =>
          \A z \in {<<"0">>, <<"1">>, <<"0", "0">>, <<"0", "1">>} :
              /\ C15_Token(z \o fmt) = tok
              /\ C15_Token(z \o fmt).count >= 1

\* "0H" packs one uint16_t, as "H" does
C15_Witness ==
    /\ op = "pack" /\ status = "ok"
    /\ fmt = <<"0", "H">>
    /\ tok = [type |-> "UINT16", endian |-> CSTRUCT_ENDIAN_LITTLE, size |-> 2, count |-> 1]
    /\ out = 2

\* the format parses from position p on, with running endianness e
RECURSIVE C16_Parses(_, _, _)
C16_Parses(f, p, e) ==
    \/ p > Len(f)
    \/ LET r == parse_token(f, p, e)
       IN  r.next # NULL /\ C16_Parses(f, r.next, r.endian)

\* the position after the token that starts at position p: its markers,
\* its digits and its letter
C16_TokenEnd(f, p) == C13_Skip(f, C13_Skip(f, p, {"<", ">"}), {Digits[d] : d \in 1..10}) + 1

\* the position after the first k tokens of the format
RECURSIVE C16_After(_, _)
C16_After(f, k) == IF k = 0 THEN 1 ELSE C16_TokenEnd(f, C16_After(f, k - 1))

\* the first k tokens of the format
C16_Prefix(f, k) == SubSeq(f, 1, Min(Len(f), C16_After(f, k) - 1))

\* the number of tokens of a format that parses
C16_NumTokens(f) == C13_Scan(f, 1, 0).before

\* the offset at which pack writes and unpack reads token k (from 0): the
\* sum of element size times repeat count over the tokens before it
C16_Offset(f, k) == C3_Sum(C16_Prefix(f, k), 1, -1)

\* C16: for a format that parses and a buffer long enough for all its
\* tokens, get_ptr with index k returns the start offset of token k, the
\* sum of element size times repeat count over tokens 0..k-1, also when an
\* earlier token is an array; "HBI" with index 2 gives offset 3.
C16_GetPtrOffset ==
    (/\ op = "get_ptr" /\ C13_Returned
     /\ C16_Parses(fmt, 1, CSTRUCT_ENDIAN_LITTLE)
     /\ C3_Sum(fmt, 1, -1) <= len
     /\ index < C16_NumTokens(fmt)) =>
        /\ status = "ok"
        /\ out = C16_Offset(fmt, index)

\* C17: get_ptr returns NULL exactly when unpack of the tokens 0..index
\* would fail on the same buffer length, that is when one of them has a
\* declared size, element size times repeat count, larger than the bytes
\* remaining at its start; a non-NULL result leaves room for the whole
\* located token.
C17_GetPtrBounds ==
    LET P == C16_Prefix(fmt, index + 1)
    IN  (/\ op = "get_ptr" /\ C13_Returned
         /\ C16_Parses(P, 1, CSTRUCT_ENDIAN_LITTLE)
         /\ C16_NumTokens(P) = index + 1) =>
            (status = "null" <=> C3_Sum(P, 1, -1) > len)

\* C18: get_ptr counts one field per token: an array counts as one, a
\* padding token as one, a marker as none; an index that is at least the
\* number of tokens of a format that parses gives NULL, and so does every
\* index on the empty format.
C18_CountsPerToken ==
    (op = "get_ptr" /\ Defined) =>
        /\ current_index = Len(fields)
        /\ status = "run" => next_fmt = C16_After(fmt, current_index)
        /\ status = "ok" =>
              /\ current_index = index
              /\ next_fmt = C16_After(fmt, index + 1)
        /\ (C13_Returned /\ C16_Parses(fmt, 1, CSTRUCT_ENDIAN_LITTLE)
               /\ index >= C16_NumTokens(fmt)) => status = "null"
        /\ (C13_Returned /\ fmt = <<>>) => status = "null"

\* "<2ixb" with index 2: the array and the padding have counted as one
\* field each and the field found is the b
C18_Witness ==
    /\ op = "get_ptr" /\ status = "ok"
    /\ fmt = <<"<", "2", "i", "x", "b">>
    /\ index = 2 /\ current_index = 2
    /\ tok.type = "INT8"

\* an index past the last token: "HBI" has no field 3
C18_WitnessNotFound ==
    /\ op = "get_ptr" /\ status = "null"
    /\ fmt = <<"H", "B">> /\ index = 2 /\ len = BufSize
    /\ current_index = 2

-----------------------------------------------------------------------------
(* A pack that failed, followed by a pack of the tokens that preceded the  *)
(* failing one, on the same buffer with the same arguments.                 *)

\* the format made of the tokens the failed call processed
ProcessedPrefix == IF fields = <<>> THEN <<>> ELSE SubSeq(fmt, 1, fields[Len(fields)].pos - 1)

\* the caller packs the tokens before the failing one, alone
PackPrefix ==
    /\ op = "pack" /\ status = "null" /\ calls = 1
    /\ Call("pack", ProcessedPrefix, len, args, 0)

NextPrefix ==
    \/ CallPack
    \/ PackStep
    \/ PackReturn
    \/ PackPrefix

SpecPrefix == Init /\ [][NextPrefix]_vars

\* C19: a failed pack is not rolled back: when pack returns NULL at token
\* k, unparsable or not fitting, the destination bytes of tokens 0..k-1
\* are what a successful pack of those tokens alone writes, and every other
\* destination byte is unchanged.
C19_FailedPackKeepsPrefix ==
    /\ (op = "pack" /\ status = "null" /\ calls = 1) =>
          /\ \A k \in 1..BufSize : k > out => buf[k] = buf0[k]
          /\ \A n \in 1..Len(fields) :
                fields[n].tok.type \in IntegerTypes =>
                    \A e \in 0..(fields[n].tok.count - 1) :
                        LET w == fields[n].tok.size
                            at == fields[n].start + e * w
                        IN  SubSeq(buf, at + 1, at + w)
                              = C6_Ordered(PackedValue(fields[n], e), fields[n].tok.endian)
    /\ (op = "pack" /\ calls = 2) =>
          /\ status \in {"run", "ok"}
          /\ buf = buf0
          /\ status = "ok" => out = C3_Sum(fmt, 1, -1)

\* "HBI" into 3 bytes failed at the I with H and B stored; the pack of
\* "HB" alone has written the same three bytes
C19_Witness ==
    /\ op = "pack" /\ status = "ok" /\ calls = 2
    /\ fmt = <<"H", "B">> /\ len = 3
    /\ args = <<1, 2, 3, 4>>
    /\ buf = <<52, 18, 120>> \o SubSeq(buf0, 4, BufSize)
    /\ buf[4] = 170

\* C20: when unpack returns NULL at token k, unparsable or past the end of
\* the source, the destinations of tokens 0..k-1 hold the values decoded
\* from the source and no destination of token k or of a later token has
\* been written; the source buffer is unchanged, and unpack and get_ptr
\* never modify it, on success either.
C20_FailedUnpackKeepsDecoded ==
    /\ (op \in {"unpack", "get_ptr"}) => buf = buf0
    /\ (op = "unpack" /\ status = "null") =>
          /\ Len(dests) = C12_Ordinal(Len(fields))
          /\ \A n \in 1..Len(fields) :
                LET fld == fields[n]
                    w == fld.tok.size
                IN  fld.tok.type # "PADDING" =>
                      /\ fld.slot \in 1..Len(dests)
                      /\ Len(dests[fld.slot]) = fld.tok.count
                      /\ fld.end <= len
                      /\ fld.tok.type \in IntegerTypes \cup {"FLOAT32", "FLOAT64", "INT128", "UINT128"} =>
                            \A e \in 0..(fld.tok.count - 1) :
                                C6_Ordered(dests[fld.slot][e + 1], fld.tok.endian)
                                  = SubSeq(buf0, fld.start + e * w + 1, fld.start + e * w + w)
                      /\ fld.tok.type = "STRING" =>
                            SubSeq(dests[fld.slot][1], 1, w) = SubSeq(buf0, fld.start + 1, fld.start + w)
                      /\ fld.tok.type = "FLOAT16" =>
                            \A e \in 0..(fld.tok.count - 1) :
                                LET h == C6_Ordered(SubSeq(buf0, fld.start + e * w + 1,
                                                           fld.start + e * w + w), fld.tok.endian)
                                IN  dests[fld.slot][e + 1] = cstruct_half_to_float(h[1] + 256 * h[2])

\* "HBI" from a 3-byte source 11 12 13: NULL at the I, with 0x1211 and 0x13
\* decoded and no third destination written
C20_Witness ==
    /\ op = "unpack" /\ status = "null"
    /\ fmt = <<"H", "B", "I">> /\ len = 3
    /\ buf = [k \in 1..BufSize |-> 16 + k]
    /\ dests = << <<<<17, 18>>>>, <<<<19>>>> >>

-----------------------------------------------------------------------------
(* Half-precision conversions.  The typed primitives are public: a caller  *)
(* may call cstruct_pack_float16_le / _be and cstruct_unpack_float16_le /   *)
(* _be on its buffer directly; tokens 'e' of a format reach the same        *)
(* primitives.                                                              *)

\* the token of a lone 'e' with the given endianness
HalfTok(endian) == [type |-> "FLOAT16", endian |-> endian, size |-> 2, count |-> 1]

Endians == {CSTRUCT_ENDIAN_LITTLE, CSTRUCT_ENDIAN_BIG}

\* buffer b with the bytes w stored from offset o on
StoreAt(b, o, w) == [k \in 1..BufSize |-> IF k > o /\ k <= o + Len(w) THEN w[k - o] ELSE b[k]]

\* cstruct_pack_float16_le / _be (buf, f): args holds the float passed
PackFloat16(f, endian) ==
    /\ status = "idle"
    /\ op' = "pack_float16"
    /\ args' = <<f>>
    /\ tok' = HalfTok(endian)
    /\ buf' = StoreAt(buf, 0, PackElem(HalfTok(endian), f))
    /\ out' = 2
    /\ status' = "ok"
    /\ calls' = calls + 1
    /\ UNCHANGED <<peer, bigEndianHost, fmt, len, index, next_fmt, current_endian, argi,
                   current_index, buf0, fields, dests, hiAccess, lastEndian>>

\* cstruct_unpack_float16_le / _be (buf, &value) on the bytes just packed,
\* with the same endianness
UnpackFloat16Back ==
    /\ op = "pack_float16" /\ status = "ok" /\ calls = 1
    /\ op' = "unpack_float16"
    /\ dests' = <<UnpackFrom(buf, tok, 0)>>
    /\ calls' = calls + 1
    /\ UNCHANGED <<peer, bigEndianHost, buf, fmt, len, args, index, next_fmt, current_endian, out,
                   argi, current_index, tok, status, buf0, fields, hiAccess, lastEndian>>

\* binary32 exponent fields and mantissas of the float inputs: zero and
\* subnormal floats, the exponents around the binary16 subnormal, normal
\* and overflow thresholds, NaN and infinity; mantissas with every kind of
\* tail below the 10 bits a binary16 keeps
FloatExponents == {0, 1, 101, 102, 103, 104, 112, 113, 123, 127, 128, 142, 143, 144, 254, 255}

FloatMantissas ==
    {0, 1, 4095, 4096, 4097, 6144, 8191, 8192, 12288, 4194304, 5033165, 8372224,
     8380416, 8384512, 8388607, 4411392}

FloatInputs ==
    {Bits32(sg, bexp, mant) : sg \in {0, 1}, bexp \in FloatExponents, mant \in FloatMantissas}

CallPackFloat16 ==
    /\ status = "idle"
    /\ \E f \in FloatInputs, endian \in Endians : PackFloat16(f, endian)

\* the slots of ArgValue that hold floats
FloatSlots == {7, 8, 9, 10, 11}

\* the caller packs one float with the format "e", "<e" or ">e"
CallPackFloat ==
    /\ status = "idle"
    /\ \E f \in {<<"e">>, <<"<", "e">>, <<">", "e">>}, a \in FloatSlots :
          Call("pack", f, BufSize, <<a>>, 0)


\* every binary16 pattern
HalfPatterns == 0..65535

\* the caller stores the two bytes w it received at the start of its
\* buffer and calls cstruct_unpack_float16_le / _be (buf, &value)
UnpackFloat16(w, endian) ==
    /\ status = "idle"
    /\ op' = "unpack_float16"
    /\ tok' = HalfTok(endian)
    /\ buf' = StoreAt(buf, 0, w)
    /\ dests' = <<UnpackFrom(StoreAt(buf, 0, w), HalfTok(endian), 0)>>
    /\ out' = 2
    /\ status' = "ok"
    /\ calls' = calls + 1
    /\ UNCHANGED <<peer, bigEndianHost, fmt, len, args, index, next_fmt, current_endian,
                   argi, current_index, buf0, fields, hiAccess, lastEndian>>

CallUnpackFloat16 ==
    /\ status = "idle"
    /\ \E h \in HalfPatterns, endian \in Endians : UnpackFloat16(Half16(h), endian)

\* cstruct_pack_float16_le / _be (buf + 2, value) with the float just
\* unpacked and the same endianness
PackFloat16Back ==
    /\ op = "unpack_float16" /\ status = "ok" /\ calls = 1
    /\ op' = "pack_float16"
    /\ args' = <<dests[1][1]>>
    /\ buf' = StoreAt(buf, 2, PackElem(tok, dests[1][1]))
    /\ out' = 4
    /\ calls' = calls + 1
    /\ UNCHANGED <<peer, bigEndianHost, fmt, len, index, next_fmt, current_endian, argi,
                   current_index, tok, status, buf0, fields, dests, hiAccess, lastEndian>>

NextFloat ==
    \/ CallPackFloat16
    \/ UnpackFloat16Back
    \/ CallUnpackFloat16
    \/ PackFloat16Back
    \/ CallPackFloat
    \/ PackStep
    \/ PackReturn
    \/ UnpackBack
    \/ UnpackStep
    \/ UnpackReturn

SpecFloat == Init /\ [][NextFloat]_vars

-----------------------------------------------------------------------------
(* Claims on the half-precision conversions *)

\* sign, exponent field and mantissa of a binary32 pattern
F32Sign(f) == f[4] \div 128
F32Exp(f) == (f[4] % 128) * 2 + (f[3] \div 128)
F32Mant(f) == (f[3] % 128) * 65536 + f[2] * 256 + f[1]

\* sign, exponent field and mantissa of a binary16 pattern
F16Sign(h) == h \div 32768
F16Exp(h) == (h \div 1024) % 32
F16Mant(h) == h % 1024

\* the binary32 pattern of the value a binary16 pattern denotes (IEEE 754):
\* a subnormal m * 2^-24 with highest set bit p is 2^(p-24) * (m / 2^p)
C21_HalfAsFloat(h) ==
    LET sg == F16Sign(h)
        e == F16Exp(h)
        m == F16Mant(h)
    IN  IF e = 0 /\ m = 0 THEN <<0, 0, 0, sg * 128>>
        ELSE IF e = 0
        THEN LET p == CHOOSE q \in 0..9 : Pow2(q) <= m /\ m < Pow2(q + 1)
                 bexp == 103 + p
                 mant == (m - Pow2(p)) * Pow2(23 - p)
             IN  <<mant % 256, (mant \div 256) % 256,
                   (bexp % 2) * 128 + (mant \div 65536), sg * 128 + (bexp \div 2)>>
        ELSE LET bexp == IF e = 31 THEN 255 ELSE e + 112
                 mant == m * 8192
             IN  <<0, (mant \div 256) % 256,
                   (bexp % 2) * 128 + (mant \div 65536), sg * 128 + (bexp \div 2)>>

\* a binary32 pattern whose value (zero, finite or infinite) a binary16
\* holds exactly
C21_Representable(f) ==
    LET E == F32Exp(f) - 127
        mant == F32Mant(f)
    IN  \/ F32Exp(f) = 0 /\ mant = 0
        \/ F32Exp(f) = 255 /\ mant = 0
        \/ E >= -14 /\ E <= 15 /\ mant % 8192 = 0
        \/ E >= -24 /\ E <= -15 /\ mant % Pow2(-E - 1) = 0

\* a float has been packed as a binary16 and unpacked again, by the
\* primitives or by pack and unpack with a format
FloatWentRound ==
    \/ op = "unpack_float16" /\ calls = 2
    \/ op = "unpack" /\ status = "ok" /\ calls = 2 /\ Len(args) = 1 /\ args[1] \in FloatSlots

\* the float that was packed, and the float that came back
FloatIn == IF op = "unpack" THEN Narrow(ArgValue(args[1]), 4) ELSE args[1]
FloatOut == dests[1][1]

\* the binary16 pattern in the buffer, read in the token's byte order
HalfInBuffer(o) ==
    IF tok.endian = CSTRUCT_ENDIAN_LITTLE THEN buf[o + 1] + 256 * buf[o + 2]
    ELSE buf[o + 2] + 256 * buf[o + 1]

\* a binary16 received has been unpacked and packed again
HalfWentRound == op = "pack_float16" /\ calls = 2

\* C21: float_to_half(half_to_float(h)) = h for every binary16 pattern h,
\* and every float32 value a binary16 holds exactly (1.0, 0.0, -2.0,
\* 65504.0) comes back bit for bit from a pack as 'e' and an unpack, in
\* both endiannesses.
C21_HalfExact ==
    /\ HalfWentRound =>
          /\ SubSeq(buf, 3, 4) = SubSeq(buf, 1, 2)
          /\ cstruct_float_to_half(cstruct_half_to_float(HalfInBuffer(0))) = HalfInBuffer(0)
    /\ (FloatWentRound /\ C21_Representable(FloatIn)) => FloatOut = FloatIn

\* a finite binary32 pattern whose magnitude lies between the smallest
\* subnormal and the largest normal binary16
C22_InHalfRange(f) ==
    LET E == F32Exp(f) - 127
    IN  /\ E >= -24 /\ E <= 15
        /\ E = 15 => F32Mant(f) <= 8380416

\* the binary16 magnitude patterns nearest to a binary32 in that range:
\* the significand 2^23 + mant loses s bits, the quotient is the pattern
\* toward zero, the remainder decides between it and its successor
C22_Nearest(f) ==
    LET E == F32Exp(f) - 127
        M == 8388608 + F32Mant(f)
        s == IF E >= -14 THEN 13 ELSE 13 + (-14 - E)
        q == M \div Pow2(s)
        r == M % Pow2(s)
        base == IF E >= -14 THEN (E + 14) * 1024 + q ELSE q
    IN  IF 2 * r < Pow2(s) THEN {base}
        ELSE IF 2 * r > Pow2(s) THEN {base + 1}
        ELSE {base, base + 1}

\* C22: a finite float32 within the binary16 range that no binary16 holds
\* exactly, packed as 'e' and unpacked, comes back as the binary16 value
\* nearest to it, not merely the next one toward zero.
C22_RoundsToNearest ==
    (FloatWentRound /\ C22_InHalfRange(FloatIn) /\ ~C21_Representable(FloatIn)) =>
        \E n \in C22_Nearest(FloatIn) :
            FloatOut = C21_HalfAsFloat(F32Sign(FloatIn) * 32768 + n)

\* a float has been converted and stored by a float16 pack primitive
HalfPacked == op = "pack_float16" /\ calls = 1

\* a binary16 received has been loaded and converted by an unpack primitive
HalfUnpacked == op = "unpack_float16" /\ calls = 1

\* C23: float_to_half maps a float32 infinity to the binary16 infinity of
\* the same sign and a float32 NaN to a binary16 NaN of the same sign;
\* half_to_float maps a binary16 infinity to a float32 infinity and a
\* binary16 NaN to a float32 NaN.
C23_InfNaN ==
    /\ (HalfPacked /\ F32Exp(args[1]) = 255) =>
          /\ F16Sign(HalfInBuffer(0)) = F32Sign(args[1])
          /\ F16Exp(HalfInBuffer(0)) = 31
          /\ (F16Mant(HalfInBuffer(0)) = 0) = (F32Mant(args[1]) = 0)
    /\ (HalfUnpacked /\ F16Exp(HalfInBuffer(0)) = 31) =>
          /\ F32Sign(FloatOut) = F16Sign(HalfInBuffer(0))
          /\ F32Exp(FloatOut) = 255
          /\ (F32Mant(FloatOut) = 0) = (F16Mant(HalfInBuffer(0)) = 0)

\* C30: float_to_half never turns a finite float32 into a binary16 NaN; a
\* finite float32 whose rebiased exponent is 31 or more converts to the
\* binary16 infinity of its sign, and one whose rebiased exponent is below
\* -10 converts to the zero of its sign.
C30_FiniteNeverNaN ==
    (HalfPacked /\ F32Exp(args[1]) < 255) =>
        /\ ~(F16Exp(HalfInBuffer(0)) = 31 /\ F16Mant(HalfInBuffer(0)) # 0)
        /\ F32Exp(args[1]) - 112 >= 31 =>
              HalfInBuffer(0) = F32Sign(args[1]) * 32768 + 31744
        /\ F32Exp(args[1]) - 112 < -10 =>
              HalfInBuffer(0) = F32Sign(args[1]) * 32768

-----------------------------------------------------------------------------
(* Claims on narrowing, padding sizes, trailing markers and byte order *)

\* v mod 2^(8w) of a value given by its bytes, least significant first
C24_Mod(v, w) == SubSeq(v, 1, w)

\* the letter of the same width and the other signedness
C24_Twin(type) ==
    CASE type = "INT8" -> "UINT8"   [] type = "UINT8" -> "INT8"
      [] type = "INT16" -> "UINT16" [] type = "UINT16" -> "INT16"
      [] type = "INT32" -> "UINT32" [] type = "UINT32" -> "INT32"
      [] type = "INT64" -> "UINT64" [] type = "UINT64" -> "INT64"
      [] OTHER -> type

\* C24: pack does no range checking: a scalar integer argument v packed
\* with a token of width w stores v mod 2^(8w), in exactly w bytes; a pack
\* fails only on a format error or a token that does not fit, never because
\* of a value; the signed and the unsigned letter of a width store the same
\* bytes for the same bit pattern.
C24_NoRangeCheck ==
    (op = "pack" /\ Defined) =>
        /\ \A n \in 1..Len(fields) :
              LET fld == fields[n]
                  w == fld.tok.size
                  v == ArgValue(Arg(args, fld.slot))
                  region == SubSeq(buf, fld.start + 1, fld.start + w)
              IN  (fld.tok.type \in IntegerTypes /\ fld.tok.count = 1) =>
                      /\ region = C6_Ordered(C24_Mod(v, w), fld.tok.endian)
                      /\ fld.end = fld.start + w
                      /\ PackElem([fld.tok EXCEPT !.type = C24_Twin(fld.tok.type)], v) = region
        /\ \A k \in 1..BufSize : k > out => buf[k] = buf0[k]
        /\ status = "null" => (next_fmt = NULL \/ tok.size * tok.count > len - out)

\* 0x...12345678 packed as "h": 78 56, two bytes and no failure
C24_Witness ==
    /\ op = "pack" /\ status = "ok"
    /\ fmt = <<"h">> /\ args[1] = 3
    /\ out = 2
    /\ SubSeq(buf, 1, 2) = <<120, 86>>
    /\ buf[3] = buf0[3]

\* C27: a padding field is written as the letter x followed by its decimal
\* size N, and denotes N bytes of padding: pack and unpack with "x3" on a
\* buffer of at least 3 bytes succeed and return the cursor advanced by 3.
C27_PaddingLetterThenSize ==
    (op \in {"pack", "unpack"} /\ fmt = <<"x", "3">> /\ len >= 3 /\ status # "run") =>
        /\ status = "ok"
        /\ out = 3

\* a format without its trailing endianness markers
RECURSIVE C28_Stem(_)
C28_Stem(f) ==
    IF Len(f) > 0 /\ f[Len(f)] \in {"<", ">"}
    THEN C28_Stem(SubSeq(f, 1, Len(f) - 1))
    ELSE f

\* C28: the end of the format reached while scanning endianness markers,
\* with no count or type pending, is normal termination: with a format that
\* ends in markers (e.g. "H>") or consists of markers only, pack and unpack
\* succeed and return the cursor of the format without those markers,
\* whenever that format parses and fits the buffer.
C28_TrailingMarkersIgnored ==
    (/\ op \in {"pack", "unpack"} /\ status \in {"ok", "null"}
     /\ Len(fmt) > 0 /\ fmt[Len(fmt)] \in {"<", ">"}
     /\ C16_Parses(C28_Stem(fmt), 1, CSTRUCT_ENDIAN_LITTLE)
     /\ C3_Sum(C28_Stem(fmt), 1, -1) <= len) =>
        /\ status = "ok"
        /\ out = C3_Sum(C28_Stem(fmt), 1, -1)

\* C29: for every multi-byte type and every value the bytes the big-endian
\* primitive writes are the reversal of the bytes the little-endian
\* primitive writes, each load primitive inverts the store primitive of the
\* same endianness, and an 8-bit type gives the same byte under both.
C29_ByteReversal ==
    (op = "pack" /\ Defined) =>
        \A n \in 1..Len(fields) :
            LET fld == fields[n]
                t == fld.tok
                w == t.size
                le == [t EXCEPT !.endian = CSTRUCT_ENDIAN_LITTLE]
                be == [t EXCEPT !.endian = CSTRUCT_ENDIAN_BIG]
            IN  t.type \notin {"STRING", "PADDING"} =>
                    \A e \in 0..(t.count - 1) :
                        LET s == Arg(args, fld.slot)
                            v == IF t.count > 1 THEN ArrayElem(s, e) ELSE ArgValue(s)
                            x == ObjectBytes(SubSeq(v, 1, w))
                            region == SubSeq(buf, fld.start + e * w + 1, fld.start + e * w + w)
                        IN  /\ region = PackElem(t, v)
                            /\ PackElem(be, v) = Reverse(PackElem(le, v))
                            /\ w = 1 => PackElem(be, v) = PackElem(le, v)
                            /\ cstruct_load_le(cstruct_store_le(x, w), w) = x
                            /\ cstruct_load_be(cstruct_store_be(x, w), w) = x
                            /\ t.type # "FLOAT16" => UnpackElem(t, region) = SubSeq(v, 1, w)

\* ">efd" on a big-endian host: the float32 field holds 0x00005678 as
\* 00 00 56 78, the reversal of its little-endian bytes
C29_Witness ==
    /\ op = "pack" /\ status = "ok" /\ bigEndianHost
    /\ fmt = <<">", "e", "f", "d">>
    /\ args = <<1, 2, 3, 4>>
    /\ SubSeq(buf, 3, 6) = <<0, 0, 86, 120>>

\* a 128-bit block packed little-endian on a big-endian host: the sixteen
\* bytes of 0x...12345678 least significant first
C29_WitnessBlock ==
    /\ op = "pack" /\ status = "ok" /\ bigEndianHost
    /\ fmt = <<"t">>
    /\ args[1] = 3
    /\ buf = ArgValue(3)

-----------------------------------------------------------------------------
(* Termination.  A call whose element loop has stored or loaded past the   *)
(* end of the buffer is outside the defined behaviour of C: the stray      *)
(* accesses may be tolerated, and the loop of the call goes on, or they    *)
(* fault or destroy the frame of the call, and the call never returns.     *)

OverrunOutcome ==
    /\ status = "undefined"
    /\ status' \in {"run", "trap"}
    /\ UNCHANGED <<peer, bigEndianHost, buf, op, fmt, len, args, index, next_fmt, current_endian,
                   out, argi, current_index, tok, buf0, fields, dests, hiAccess,
                   lastEndian, calls>>

\* the calls whose termination is followed: formats of the documentation,
\* a failing one, and one whose repeat count overruns the buffer
LiveFormats ==
    { <<>>, <<"H", "B", "I">>, <<">", "3", "H">>, <<"I", "4", "x", "I">>,
      <<"5", "s">>, <<"e">>, <<"?">>, <<"4", "0", "9", "6", "T">> }

LiveLens == {4, BufSize}

CallPackLive ==
    /\ status = "idle"
    /\ \E f \in LiveFormats, n \in LiveLens : Call("pack", f, n, <<1, 2, 3, 4>>, 0)

CallUnpackLive ==
    /\ status = "idle"
    /\ \E f \in LiveFormats, n \in LiveLens : Call("unpack", f, n, <<>>, 0)

CallGetPtrLive ==
    /\ status = "idle"
    /\ \E f \in LiveFormats, n \in LiveLens, k \in Indexes : Call("get_ptr", f, n, <<>>, k)

\* the steps of the call in progress
CallSteps ==
    \/ PackStep
    \/ PackReturn
    \/ UnpackStep
    \/ UnpackReturn
    \/ GetPtrStep
    \/ GetPtrReturn
    \/ OverrunOutcome

NextLive ==
    \/ CallPackLive
    \/ CallUnpackLive
    \/ CallGetPtrLive
    \/ CallSteps

\* a call that can take a step takes it: the loops of a call run on the
\* caller's thread with nothing to wait for
SpecLive == Init /\ [][NextLive]_vars /\ WF_vars(CallSteps)

\* every parser step consumes at least one format character or ends the call
C25_ParserProgress ==
    [][(status = "run" /\ status' = "run") => next_fmt' > next_fmt]_vars

\* the number of shifts of the normalisation loop of half_to_float
RECURSIVE C25_Shifts(_)
C25_Shifts(frac) == IF (frac \div 1024) % 2 = 0 THEN 1 + C25_Shifts(frac * 2) ELSE 0

\* the normalisation loop ends within 10 iterations for a non-zero mantissa
C25_NormalizationBound ==
    (HalfUnpacked /\ F16Exp(HalfInBuffer(0)) = 0 /\ F16Mant(HalfInBuffer(0)) # 0) =>
        C25_Shifts(F16Mant(HalfInBuffer(0))) <= 10

-----------------------------------------------------------------------------
(* Two calls on two threads, each with its own buffer.  The locals of a    *)
(* call (parser cursor, running endianness, buffer cursor, token) live in  *)
(* the frame of cstruct_pack_v / cstruct_unpack_v / cstruct_get_ptr; the    *)
(* thread that is not running keeps its frame and buffer in peer.          *)

\* (mutant of ResumedEndian) the running endianness is one object shared by
\* all calls
ResumedEndian_Shared(own, other) == other

\* the running endianness a call continues with when its thread is resumed
\* (own: as this call left it, other: as the call of the other thread left
\* it): current_endian is a local of the call
ResumedEndian(own, other) == own

\* the scheduler suspends the running thread and resumes the other one
Switch ==
    /\ peer.status \in {"idle", "run"}
    /\ peer.switches < MaxSwitches
    /\ buf' = peer.buf
    /\ op' = peer.op
    /\ fmt' = peer.fmt
    /\ len' = peer.len
    /\ args' = peer.args
    /\ index' = peer.index
    /\ next_fmt' = peer.next_fmt
    /\ current_endian' = ResumedEndian(peer.current_endian, current_endian)
    /\ out' = peer.out
    /\ argi' = peer.argi
    /\ current_index' = peer.current_index
    /\ tok' = peer.tok
    /\ status' = peer.status
    /\ buf0' = peer.buf0
    /\ fields' = peer.fields
    /\ dests' = peer.dests
    /\ hiAccess' = peer.hiAccess
    /\ lastEndian' = peer.lastEndian
    /\ peer' = [buf |-> buf, op |-> op, fmt |-> fmt, len |-> len, args |-> args,
                index |-> index, next_fmt |-> next_fmt, current_endian |-> current_endian,
                out |-> out, argi |-> argi, current_index |-> current_index, tok |-> tok,
                status |-> status, buf0 |-> buf0, fields |-> fields, dests |-> dests,
                hiAccess |-> hiAccess, lastEndian |-> lastEndian,
                switches |-> peer.switches + 1]
    /\ UNCHANGED <<bigEndianHost, calls>>

PairFormats ==
    { <<"H", "B", "I">>, <<">", "H", "H">>, <<"<", "H", ">", "H">>,
      <<">", "2", "H", "x", "B">>, <<"2", "s", "B">>, <<"I", "?">> }

PairLens == {3, BufSize}

\* the running thread calls cstruct_pack, cstruct_unpack or cstruct_get_ptr
CallPairPack ==
    /\ status = "idle"
    /\ \E f \in PairFormats, n \in PairLens : Call("pack", f, n, <<1, 2, 3, 4>>, 0)

CallPairUnpack ==
    /\ status = "idle"
    /\ \E f \in PairFormats, n \in PairLens : Call("unpack", f, n, <<>>, 0)

CallPairGetPtr ==
    /\ status = "idle"
    /\ \E f \in PairFormats, n \in PairLens, k \in {1, 3} : Call("get_ptr", f, n, <<>>, k)

NextPair ==
    \/ CallPairPack
    \/ CallPairUnpack
    \/ CallPairGetPtr
    \/ Switch
    \/ PackStep
    \/ PackReturn
    \/ UnpackStep
    \/ UnpackReturn
    \/ GetPtrStep
    \/ GetPtrReturn

SpecPair == Init /\ [][NextPair]_vars

\* the call c run alone from where it stands to its return: the loop of
\* cstruct_pack_v, cstruct_unpack_v or cstruct_get_ptr with nothing in between
RECURSIVE C26_Alone(_)
C26_Alone(c) ==
    IF c.status # "run" THEN c
    ELSE IF CharAt(c.fmt, c.next_fmt) = NUL
    THEN [c EXCEPT !.status = IF c.op = "get_ptr" THEN "null" ELSE "ok"]
    ELSE LET r == parse_token(c.fmt, c.next_fmt, c.current_endian)
             t == r.tok
         IN  IF c.op = "get_ptr"
             THEN IF r.next = NULL \/ ~FitsField(c.len - c.out, t)
                  THEN [c EXCEPT !.status = "null"]
                  ELSE IF c.current_index = c.index
                  THEN [c EXCEPT !.status = "ok"]
                  ELSE C26_Alone([c EXCEPT !.next_fmt = r.next,
                                           !.current_endian = r.endian,
                                           !.current_index = NextIndex(t, c.current_index),
                                           !.out = c.out + t.size])
             ELSE IF r.next = NULL \/ ~Fits(c.len - c.out, t)
             THEN [c EXCEPT !.status = "null"]
             ELSE IF c.out + BytesAccessed(t) > c.len
             THEN [c EXCEPT !.status = "undefined"]
             ELSE C26_Alone([c EXCEPT
                    !.next_fmt = r.next,
                    !.current_endian = r.endian,
                    !.out = NextCursor(t, c.out),
                    !.argi = c.argi + SlotsTaken(t),
                    !.buf = IF c.op = "pack"
                            THEN PackInto(c.buf, t, Arg(c.args, c.argi + 1), c.out)
                            ELSE c.buf,
                    !.dests = IF c.op = "unpack" /\ SlotsTaken(t) # 0
                              THEN Append(c.dests, UnpackFrom(c.buf, t, c.out))
                              ELSE c.dests])

\* the call of a thread as it stood when it was made
C26_Start(o, f, n, a, k, b) ==
    [op |-> o, fmt |-> f, len |-> n, args |-> a, index |-> k, buf |-> b,
     next_fmt |-> 1, current_endian |-> CSTRUCT_ENDIAN_LITTLE, out |-> 0, argi |-> 0,
     current_index |-> 0, dests |-> <<>>, status |-> "run"]

\* a returned call has the return value, buffer and destinations of the
\* same call run alone
C26_AsAlone(st, o, f, n, a, k, b0, res, b, d) ==
    st \in {"ok", "null"} =>
        LET alone == C26_Alone(C26_Start(o, f, n, a, k, b0))
        IN  /\ st = alone.status
            /\ st = "ok" => res = alone.out
            /\ b = alone.buf
            /\ d = alone.dests

\* C26: two calls running concurrently on disjoint buffers do not
\* interfere: however their steps interleave, the return value of each, the
\* final contents of its buffer and what it stored through its destinations
\* are those of the same call run alone.
C26_NoInterference ==
    /\ C26_AsAlone(status, op, fmt, len, args, index, buf0, out, buf, dests)
    /\ C26_AsAlone(peer.status, peer.op, peer.fmt, peer.len, peer.args, peer.index,
                   peer.buf0, peer.out, peer.buf, peer.dests)

\* ">HH" packed big-endian on one thread, interleaved token by token with
\* "HBI" packed little-endian on the other: both have returned
C26_Witness ==
    /\ calls = 2 /\ peer.switches = 4
    /\ op = "pack" /\ status = "ok" /\ fmt = <<">", "H", "H">>
    /\ SubSeq(buf, 1, 4) = <<18, 52, 86, 120>>
    /\ peer.op = "pack" /\ peer.status = "ok" /\ peer.fmt = <<"H", "B", "I">>
    /\ SubSeq(peer.buf, 1, 7) = <<52, 18, 120, 120, 86, 52, 18>>
    /\ \A k \in 8..BufSize : peer.buf[k] = PeerBuf[k]

====
